---- MODULE Spec2Model ----
(***************************************************************************)
(* swagger-annotator: the annotation package (Run, the directory walk,     *)
(* the per-file pipeline, the name generator and the line patcher) and     *)
(* the command's two modes.                                                *)
(*                                                                         *)
(* Identifiers and directive names are sequences of text chunks, so that   *)
(* suffix stripping, suffix appending and substring matching are computed  *)
(* and not assumed: "WidgetResponse" is <<"Widget","Response">> and the    *)
(* name "WidgetItemRes" is <<"Widget","Item","Res">>.                      *)
(* A source line is a sequence of tokens: one whitespace character, one    *)
(* unit of code text, the comment text "// @swagger:ignore", or the        *)
(* comment text "// @name <token>".                                        *)
(***************************************************************************)
EXTENDS Integers, Sequences, FiniteSets, TLC

\* ------------------------------------------------------------ bounds
MaxDecls == 3
MaxFiles == 2
MaxRuns == 2
MaxWs == 2

\* ------------------------------------------------------------ text helpers
HasSuffix(s, suf) ==
  Len(s) >= Len(suf) /\ SubSeq(s, Len(s) - Len(suf) + 1, Len(s)) = suf

HasPrefix(s, p) ==
  Len(s) >= Len(p) /\ SubSeq(s, 1, Len(p)) = p

TrimSuffix(s, suf) ==
  IF HasSuffix(s, suf) THEN SubSeq(s, 1, Len(s) - Len(suf)) ELSE s

TrimPrefix(s, p) ==
  IF HasPrefix(s, p) THEN SubSeq(s, Len(p) + 1, Len(s)) ELSE s

MapPut(m, keys, v) ==
  [k \in (DOMAIN m) \cup keys |-> IF k \in keys THEN v ELSE m[k]]

EmptyMap == [k \in {} |-> <<>>]

\* ------------------------------------------------------------ constants of the package
sourceDirs == <<"request", "response">>

projectPrefix == <<"omp-">>

basicTypes ==
  { <<"string">>, <<"int">>, <<"int32">>, <<"int64">>, <<"uint">>, <<"uint32">>,
    <<"uint64">>, <<"float32">>, <<"float64">>, <<"bool">>, <<"byte">>, <<"rune">> }

\* The identifiers of the model whose first letter is lower case.
LowerInitial == {"widgets", "string", "int"}

IsExported(name) == name # <<>> /\ Head(name) \notin LowerInitial

\* ------------------------------------------------------------ tokens of a line
WS == [k |-> "ws", tok |-> <<>>]
CODE == [k |-> "code", tok |-> <<>>]
IGN == [k |-> "ign", tok |-> <<>>]
NameTok(t) == [k |-> "name", tok |-> t]

\* strings.Contains(text, "@swagger:ignore")
hasIgnoreMarker(line) == \E p \in 1..Len(line) : line[p].k = "ign"

\* strings.TrimSpace: the number of leading whitespace characters, and the trimmed text
LeadingWs(line) ==
  IF \A p \in 1..Len(line) : line[p].k = "ws" THEN Len(line)
  ELSE (CHOOSE p \in 1..Len(line) :
          line[p].k # "ws" /\ \A q \in 1..(p - 1) : line[q].k = "ws") - 1

TrailingWs(line) ==
  IF \A p \in 1..Len(line) : line[p].k = "ws" THEN 0
  ELSE Len(line) - (CHOOSE p \in 1..Len(line) :
          line[p].k # "ws" /\ \A q \in (p + 1)..Len(line) : line[q].k = "ws")

TrimSpace(line) == SubSeq(line, LeadingWs(line) + 1, Len(line) - TrailingWs(line))

\* strings.Contains(lineStr, "@name " + prefix + name): the text after "@name "
\* only has to begin with the expected token.
ContainsExpected(lineStr, expected) ==
  \E p \in 1..Len(lineStr) : lineStr[p].k = "name" /\ HasPrefix(lineStr[p].tok, expected)

\* nameRegex.FindStringIndex(lineStr): the 0-based offset of the first match, -1 for nil
nameRegexFind(lineStr) ==
  IF \E p \in 1..Len(lineStr) : lineStr[p].k = "name"
  THEN (CHOOSE p \in 1..Len(lineStr) :
          lineStr[p].k = "name" /\ \A q \in 1..(p - 1) : lineStr[q].k # "name") - 1
  ELSE -1

\* ------------------------------------------------------------ Type Shape Analyzer
EmptyInfo ==
  [Name |-> <<>>, IsGeneric |-> FALSE, IsAlias |-> FALSE,
   InnerType |-> <<>>, GenericBase |-> <<>>]

\* ts.shape "index": ts.x is the name of IndexExpr.X when it is an identifier
\* (<<>> otherwise), ts.index the name of IndexExpr.Index when it is one.
handleIndexExpr(info, ts) ==
  IF ts.x # <<>>
  THEN [info EXCEPT !.IsAlias = (ts.name # ts.x),
                    !.IsGeneric = (ts.name = ts.x),
                    !.GenericBase = ts.x,
                    !.InnerType = ts.index]
  ELSE info

\* ts.shape "ident": ts.x is the identifier
handleIdentType(info, ts) ==
  IF ts.x \in basicTypes THEN EmptyInfo ELSE [info EXCEPT !.IsAlias = TRUE]

extractTypeInfo(ts) ==
  LET info == [EmptyInfo EXCEPT !.Name = ts.name]
  IN  IF ts.shape = "index" THEN handleIndexExpr(info, ts)
      ELSE IF ts.shape = "ident" THEN handleIdentType(info, ts)
      ELSE IF ts.shape = "struct" THEN info
      ELSE EmptyInfo

IsSearchResponseWrapper(info) ==
  (info.IsGeneric \/ info.IsAlias) /\ info.GenericBase = <<"SearchResponse">>

\* ------------------------------------------------------------ Name Generator
StripSuffixes(name) == TrimSuffix(TrimSuffix(name, <<"Response">>), <<"Request">>)

\* a mutated generator: the wrapper's own suffix follows the variant of the file
generateAnnotationNameWithContext_wrapperByVariant(info, variant, searchResponseInnerTypes_) ==
  IF info.Name = <<>> THEN << <<>>, <<>> >>
  ELSE IF IsSearchResponseWrapper(info)
  THEN << info.Name \o (IF variant = "response" THEN <<"Res">> ELSE <<"Req">>),
          IF info.InnerType # <<>>
          THEN StripSuffixes(info.InnerType)
                 \o (IF variant = "response" THEN <<"Item", "Res">> ELSE <<"Item", "Req">>)
          ELSE <<>> >>
  ELSE << StripSuffixes(info.Name)
            \o (IF info.Name \in searchResponseInnerTypes_
                THEN (IF variant = "response" THEN <<"Item", "Res">> ELSE <<"Item", "Req">>)
                ELSE (IF variant = "response" THEN <<"Res">> ELSE <<"Req">>)),
          <<>> >>

generateAnnotationNameWithContext(info, variant, searchResponseInnerTypes_) ==
  IF info.Name = <<>> THEN << <<>>, <<>> >>
  ELSE IF IsSearchResponseWrapper(info)
  THEN << info.Name \o <<"Res">>,
          IF info.InnerType # <<>>
          THEN StripSuffixes(info.InnerType)
                 \o (IF variant = "response" THEN <<"Item", "Res">> ELSE <<"Item", "Req">>)
          ELSE <<>> >>
  ELSE << StripSuffixes(info.Name)
            \o (IF info.Name \in searchResponseInnerTypes_
                THEN (IF variant = "response" THEN <<"Item", "Res">> ELSE <<"Item", "Req">>)
                ELSE (IF variant = "response" THEN <<"Res">> ELSE <<"Req">>)),
          <<>> >>

\* ------------------------------------------------------------ Ignore Classifier
\* The comments of the file that hold the marker, by 1-based line.
MarkerCommentLines(lines_) == {l \in 1..Len(lines_) : hasIgnoreMarker(lines_[l])}

typeIsIgnored(ts, lines_) ==
  \/ ts.doc
  \/ ts.pos > 0 /\ ts.pos <= Len(lines_) /\ hasIgnoreMarker(lines_[ts.pos])
  \/ \E l \in MarkerCommentLines(lines_) : l >= ts.pos - 1 /\ l <= ts.pos + 1

findIgnoredTypes(decls, lines_) ==
  {decls[k].name : k \in {j \in 1..Len(decls) :
      IsExported(decls[j].name) /\ typeIsIgnored(decls[j], lines_)}}

\* ------------------------------------------------------------ Inner-Type Resolver
innerTypeOf(ts, ignoredTypes_) ==
  IF ~IsExported(ts.name) \/ ts.name \in ignoredTypes_ THEN <<>>
  ELSE LET info == extractTypeInfo(ts)
       IN  IF IsSearchResponseWrapper(info) THEN info.InnerType ELSE <<>>

findSearchResponseInnerTypes(decls, ignoredTypes_) ==
  {innerTypeOf(decls[k], ignoredTypes_) : k \in 1..Len(decls)} \ {<<>>}

\* ------------------------------------------------------------ naming pass
\* The plan state of one file: annotations (0-based line -> name), annotatedTypes,
\* and the history of the writes into annotations, each with the declaration (its
\* index in the file) the entry was written for.
EmptyPlan == [annotations |-> EmptyMap, annotatedTypes |-> {}, writes |-> {}]

\* a mutated lookup: the inner declaration is taken even when its name is ignored
innerDeclMatches_noIgnore(its, innerType, ignoredTypes_) ==
  its.name = innerType

\* the test of the nested inspection of addAnnotations
innerDeclMatches(its, innerType, ignoredTypes_) ==
  its.name = innerType /\ its.name \notin ignoredTypes_

\* a mutated visit, single-pass: the inner types are those of the wrappers declared
\* so far, and a line that is planned already is not written again
addAnnotationsVisit_singlePass(decls, variant, ignoredTypes_, inner_, st, k) ==
  LET ts == decls[k]
      info == extractTypeInfo(ts)
      soFar == {innerTypeOf(decls[j], ignoredTypes_) : j \in 1..k} \ {<<>>}
      names == generateAnnotationNameWithContext(info, variant, soFar)
      free(a, ls) == {l \in ls : l \notin DOMAIN a}
      st1 == IF names[1] # <<>> /\ names[1] \notin st.annotatedTypes
             THEN [st EXCEPT
                     !.annotations = MapPut(@, free(@, {ts.end - 1}), names[1]),
                     !.annotatedTypes = @ \cup {names[1]}]
             ELSE st
      targets == {j \in 1..Len(decls) :
                    innerDeclMatches(decls[j], info.InnerType, ignoredTypes_)}
      st2 == IF names[2] # <<>> /\ names[2] \notin st1.annotatedTypes
                /\ info.InnerType # <<>> /\ targets # {}
             THEN [st1 EXCEPT
                     !.annotations =
                        MapPut(@, free(@, {decls[j].end - 1 : j \in targets}), names[2]),
                     !.annotatedTypes = @ \cup {names[2]}]
             ELSE st1
  IN  IF ~IsExported(ts.name) \/ ts.name \in ignoredTypes_ THEN st
      ELSE IF info.Name = <<>> THEN st
      ELSE st2

\* One visit of the outer inspection of addAnnotations, at declaration k.
addAnnotationsVisit(decls, variant, ignoredTypes_, inner_, st, k) ==
  LET ts == decls[k]
      info == extractTypeInfo(ts)
      names == generateAnnotationNameWithContext(info, variant, inner_)
      mainName == names[1]
      itemName == names[2]
      st1 == IF mainName # <<>> /\ mainName \notin st.annotatedTypes
             THEN [annotations |-> MapPut(st.annotations, {ts.end - 1}, mainName),
                   annotatedTypes |-> st.annotatedTypes \cup {mainName},
                   writes |-> st.writes
                                \cup {[line |-> ts.end - 1, decl |-> k, name |-> mainName]}]
             ELSE st
      \* the nested inspection returns false at a match, which skips that node's
      \* children only: every matching declaration of the file is visited
      targets == {j \in 1..Len(decls) :
                    innerDeclMatches(decls[j], info.InnerType, ignoredTypes_)}
      st2 == IF itemName # <<>> /\ itemName \notin st1.annotatedTypes
                /\ info.InnerType # <<>> /\ targets # {}
             THEN [annotations |-> MapPut(st1.annotations,
                                          {decls[j].end - 1 : j \in targets}, itemName),
                   annotatedTypes |-> st1.annotatedTypes \cup {itemName},
                   writes |-> st1.writes
                                \cup {[line |-> decls[j].end - 1, decl |-> j,
                                       name |-> itemName] : j \in targets}]
             ELSE st1
  IN  IF ~IsExported(ts.name) \/ ts.name \in ignoredTypes_ THEN st
      ELSE IF info.Name = <<>> THEN st
      ELSE st2

RECURSIVE addAnnotationsFrom(_, _, _, _, _, _)
addAnnotationsFrom(decls, variant, ignoredTypes_, inner_, st, k) ==
  IF k > Len(decls) THEN st
  ELSE addAnnotationsFrom(decls, variant, ignoredTypes_, inner_,
         addAnnotationsVisit(decls, variant, ignoredTypes_, inner_, st, k), k + 1)

\* The three passes of processFile over a parsed file.
PlanOf(decls, lines_, variant) ==
  LET ign == findIgnoredTypes(decls, lines_)
      inner == findSearchResponseInnerTypes(decls, ign)
  IN  addAnnotationsFrom(decls, variant, ign, inner, EmptyPlan, 1)

\* ------------------------------------------------------------ Line Patcher
\* lines[i][:loc[0]]: loc[0] is an offset into the trimmed text, the slice is taken
\* of the untrimmed line
replaceCut(line, loc0) == SubSeq(line, 1, loc0)

\* One iteration of the loop of applyAnnotations on a planned line:
\* the new line and what was counted.
patchLine(line, expected) ==
  LET lineStr == TrimSpace(line)
      loc0 == nameRegexFind(lineStr)
      comment == <<WS, NameTok(expected)>>
  IN  IF ContainsExpected(lineStr, expected) THEN [line |-> line, did |-> "none"]
      ELSE IF loc0 >= 0
      THEN [line |-> replaceCut(line, loc0) \o comment, did |-> "replaced"]
      ELSE [line |-> line \o comment, did |-> "added"]

applyAnnotations(lines_, annotations_, prefix) ==
  LET planned == {i \in 0..(Len(lines_) - 1) : i \in DOMAIN annotations_}
      res == [i \in planned |-> patchLine(lines_[i + 1], prefix \o annotations_[i])]
  IN  [lines |-> [l \in 1..Len(lines_) |->
                    IF (l - 1) \in planned THEN res[l - 1].line ELSE lines_[l]],
       added |-> Cardinality({i \in planned : res[i].did = "added"}),
       replaced |-> Cardinality({i \in planned : res[i].did = "replaced"}),
       annotationsApplied |-> Cardinality({i \in planned : res[i].did # "none"})]

\* ------------------------------------------------------------ prefix
getProjectName(input) == TrimPrefix(input, projectPrefix)

\* fmt.Sprintf("%s.%s.", projectPrefix, version)
filePrefix(project, version) == project \o <<".">> \o version \o <<".">>

\* ------------------------------------------------------------ parser
CodeCount(line) == Cardinality({p \in 1..Len(line) : line[p].k = "code"})

\* parser.ParseFile: the declarations are those of the file's code; the parse fails
\* when the file is not Go or when code text of a line has been cut away.
parseOk(file, lines_) ==
  /\ file.fault # "parse"
  /\ Len(lines_) = Len(file.codeLen)
  /\ \A l \in 1..Len(lines_) : CodeCount(lines_[l]) = file.codeLen[l]

\* ------------------------------------------------------------ source files
\* A type declaration as the parser gives it: name, the shape of its type
\* expression, and (ts.doc) whether the doc comment attached to the TypeSpec holds
\* the marker. pos and end are the 1-based lines of ts.Pos() and ts.End().
Struct(n) == [name |-> n, shape |-> "struct", x |-> <<>>, index |-> <<>>]
Wrapper(n, innerName) ==
  [name |-> n, shape |-> "index", x |-> <<"SearchResponse">>, index |-> innerName]
Alias(n, target) == [name |-> n, shape |-> "ident", x |-> target, index |-> <<>>]

Spaces(n) == [p \in 1..n |-> WS]

\* The text of one declaration: height lines, the last one indented by ws
\* characters and followed by the trailing comment text tail.
DeclLines(it) ==
  LET last == Spaces(it.ws) \o <<CODE>> \o it.tail
  IN  IF it.height = 1 THEN <<last>>
      ELSE IF it.height = 2 THEN << <<CODE>>, last >>
      ELSE << <<CODE>>, <<WS, CODE>>, last >>

\* The file laid out from its declarations in order. An item may be preceded by a
\* blank line (gap), by a comment line holding the marker (lead), or be written on
\* the line its predecessor ends on (join).
RECURSIVE LayOut(_, _, _)
LayOut(items, k, acc) ==
  IF k > Len(items) THEN acc
  ELSE LET it == items[k]
           joined == it.join /\ k > 1
           before == (IF it.gap THEN << <<>> >> ELSE <<>>)
                       \o (IF it.lead THEN << <<IGN>> >> ELSE <<>>)
           pos == IF joined THEN Len(acc.lines) ELSE Len(acc.lines) + Len(before) + 1
           end == IF joined THEN pos ELSE pos + it.height - 1
           d == [name |-> it.content.name, shape |-> it.content.shape,
                 x |-> it.content.x, index |-> it.content.index,
                 doc |-> it.doc, pos |-> pos, end |-> end]
       IN  LayOut(items, k + 1,
                  [decls |-> Append(acc.decls, d),
                   lines |-> IF joined THEN acc.lines
                             ELSE acc.lines \o before \o DeclLines(it)])

SourceFile(dir, fault, items) ==
  LET laid == LayOut(items, 1, [decls |-> <<>>, lines |-> <<>>])
  IN  [dir |-> dir, version |-> <<"v1">>, fault |-> fault, items |-> items,
       decls |-> laid.decls,
       codeLen |-> [l \in 1..Len(laid.lines) |-> CodeCount(laid.lines[l])],
       text |-> laid.lines]

PlainItem(content) ==
  [content |-> content, doc |-> FALSE, height |-> 1, ws |-> 0, tail |-> <<>>,
   lead |-> FALSE, gap |-> FALSE, join |-> FALSE]

\* GITHUB_REPOSITORY names the repository omp-rental
RepositoryName == <<"omp-", "rental">>

PrefixOf(file) == filePrefix(getProjectName(RepositoryName), file.version)

\* ------------------------------------------------------------ state
VARIABLES
  mode,          \* the -mode flag
  files,         \* the entries the walk meets, in walk order, with their faults
  disk,          \* the lines of each file on disk
  run,           \* the number of the invocation of the command
  pc,            \* where the invocation is
  cur,           \* the entry the walk is at
  aborted,       \* the source directories whose walk returned an error
  lines,         \* processFile: the lines of the file in memory
  ignoredTypes,
  searchResponseInnerTypes,
  plan,          \* annotations, annotatedTypes (and the history of writes)
  i,             \* addAnnotations: the declaration the inspection is at
  annotationsApplied,
  result,        \* ProcessingResult
  runErr,        \* whether Run returned an error
  exitCode,
  handled,       \* the entries processFile was called for in this invocation
  prevDisk       \* the disk as the previous invocation left it

vars ==
  << mode, files, disk, run, pc, cur, aborted, lines, ignoredTypes,
     searchResponseInnerTypes, plan, i, annotationsApplied, result, runErr,
     exitCode, handled, prevDisk >>

EmptyResult ==
  [FilesProcessed |-> 0, AnnotationsAdded |-> 0, AnnotationsReplaced |-> 0,
   Errors |-> <<>>]

AddError(r, kind, path) == [r EXCEPT !.Errors = Append(@, [kind |-> kind, path |-> path])]

HasErrors(r) == Len(r.Errors) > 0

\* the state every invocation starts from
Fresh ==
  /\ pc = "main"
  /\ cur = 0
  /\ aborted = {}
  /\ lines = <<>>
  /\ ignoredTypes = {}
  /\ searchResponseInnerTypes = {}
  /\ plan = EmptyPlan
  /\ i = 0
  /\ annotationsApplied = 0
  /\ result = EmptyResult
  /\ runErr = FALSE
  /\ exitCode = -1
  /\ handled = {}

InitWith(m, fs) ==
  /\ mode = m
  /\ files = fs
  /\ disk = [n \in 1..Len(fs) |-> fs[n].text]
  /\ prevDisk = [n \in 1..Len(fs) |-> fs[n].text]
  /\ run = 1
  /\ Fresh

\* ------------------------------------------------------------ the inputs
\* Declarations of the naming runs: an item type, two wrappers (one of them over
\* the other wrapper), two structs whose names collide with computed names, and
\* an unexported wrapper.
NamingContents ==
  { Struct(<<"Widget", "Response">>),
    Struct(<<"Widget", "Request">>),
    Struct(<<"Widget", "Item">>),
    Wrapper(<<"Widget", "Item">>, <<"Widget", "Response">>),
    Wrapper(<<"Widgets">>, <<"Widget", "Response">>),
    Wrapper(<<"Page">>, <<"Widgets">>),
    Wrapper(<<"widgets">>, <<"Widget", "Response">>) }

\* one-line declarations; at most one carries the marker in its doc comment and at
\* most one is written on the line of its predecessor
NamingItems(n) ==
  { [k \in 1..n |-> [PlainItem(c[k]) EXCEPT !.doc = (k = docAt), !.join = (k = joinAt)]] :
      c \in [1..n -> NamingContents], docAt \in 0..n, joinAt \in {0} \cup (2..n) }

\* The directive tokens a line of the patch runs may already carry for type n.
OldTok(n) == <<"old", ".", "v1", ".">> \o n
CurTok(n) == <<"rental", ".", "v1", ".">> \o n \o <<"Res">>
LongTok(n) == CurTok(n) \o <<"ult">>

Tails(n) ==
  { <<>>,
    <<WS, IGN>>,
    <<WS, NameTok(OldTok(n))>>,
    <<WS, NameTok(CurTok(n))>>,
    <<WS, NameTok(LongTok(n))>>,
    <<WS, NameTok(OldTok(n)), WS, IGN>>,
    <<WS, IGN, WS, NameTok(OldTok(n))>> }

\* a struct Foo of one to three lines, with any indentation and trailing comment on
\* its last line, optionally followed by a one-line struct Bar
PatchItems ==
  LET first == { [PlainItem(Struct(<<"Foo">>)) EXCEPT
                    !.height = h, !.ws = w, !.tail = t, !.lead = ld] :
                  h \in 1..3, w \in 0..MaxWs, t \in Tails(<<"Foo">>), ld \in BOOLEAN }
      second == { [PlainItem(Struct(<<"Bar">>)) EXCEPT !.gap = g] : g \in BOOLEAN }
  IN  { <<a>> : a \in first } \cup { <<a, b>> : a \in first, b \in second }

\* files of the run-level runs: a struct without a directive, or with the right one
RunContents(dir) ==
  { << PlainItem(Struct(<<"Foo">>)) >>,
    << [PlainItem(Struct(<<"Foo">>)) EXCEPT
          !.tail = <<WS, NameTok(<<"rental", ".", "v1", ".", "Foo">>
                         \o (IF dir = "response" THEN <<"Res">> ELSE <<"Req">>))>>] >> }

Faults == {"none", "read", "parse", "write", "lstat", "nongo"}

RunEntriesIn(d) == { SourceFile(d, fl, its) : fl \in Faults, its \in RunContents(d) }

RunEntries == RunEntriesIn("request") \cup RunEntriesIn("response")

DirIndex(d) == CHOOSE k \in 1..Len(sourceDirs) : sourceDirs[k] = d

\* the walk visits the directories in the order of sourceDirs
InWalkOrder(fs) ==
  \A a, b \in 1..Len(fs) : a < b => DirIndex(fs[a].dir) <= DirIndex(fs[b].dir)

Init ==
  \E d \in {"request", "response"}, its \in PatchItems :
    InitWith("annotate", << SourceFile(d, "none", its) >>)

InitNaming ==
  \E d \in {"request", "response"}, n \in 1..MaxDecls :
    \E its \in NamingItems(n) :
      InitWith("annotate", << SourceFile(d, "none", its) >>)

InitRun ==
  \E m \in {"annotate", "check"}, n \in 0..MaxFiles :
    \E fs \in [1..n -> RunEntries] :
      InWalkOrder(fs) /\ InitWith(m, fs)

\* ------------------------------------------------------------ the command and Run
\* main: both modes call annotation.Run
Main ==
  /\ pc = "main"
  /\ pc' = (IF mode \in {"annotate", "check"} THEN "walk" ELSE "done")
  /\ exitCode' = (IF mode \in {"annotate", "check"} THEN exitCode ELSE 1)
  /\ result' = EmptyResult
  /\ UNCHANGED << mode, files, disk, run, cur, aborted, lines, ignoredTypes,
                  searchResponseInnerTypes, plan, i, annotationsApplied, runErr,
                  handled, prevDisk >>

\* a mutated callback: the error of processSourceFile is returned to filepath.Walk
walkFuncReturn_propagates(procErr) == procErr

\* the callback of filepath.Walk returns nil after a file was processed, whether
\* or not processSourceFile failed (TRUE: an error goes back to the walk)
walkFuncReturn(procErr) == FALSE

\* what a failure of processSourceFile on the current file leaves
FileFailed ==
  LET dir == files[cur].dir
      stop == walkFuncReturn(TRUE)
      r1 == AddError(result, "processing", cur)
  IN  /\ result' = (IF stop THEN AddError(r1, "walking", dir) ELSE r1)
      /\ aborted' = (IF stop THEN aborted \cup {dir} ELSE aborted)
      /\ pc' = "walk"

\* filepath.Walk calls the callback for the next entry
Walk ==
  /\ pc = "walk"
  /\ cur < Len(files)
  /\ cur' = cur + 1
  /\ LET e == files[cur + 1]
     IN  IF e.dir \in aborted
         THEN UNCHANGED << pc, result, aborted, handled >>
         ELSE IF e.fault = "lstat"
         THEN /\ result' = AddError(result, "walking", e.dir)
              /\ aborted' = aborted \cup {e.dir}
              /\ UNCHANGED << pc, handled >>
         ELSE IF e.fault = "nongo"
         THEN UNCHANGED << pc, result, aborted, handled >>
         ELSE /\ result' = [result EXCEPT !.FilesProcessed = @ + 1]
              /\ handled' = handled \cup {cur + 1}
              /\ pc' = "read"
              /\ UNCHANGED aborted
  /\ UNCHANGED << mode, files, disk, run, lines, ignoredTypes,
                  searchResponseInnerTypes, plan, i, annotationsApplied, runErr,
                  exitCode, prevDisk >>

\* processFile: os.ReadFile, parser.ParseFile, bytes.Split and the fresh maps
ReadAndParse ==
  /\ pc = "read"
  /\ IF files[cur].fault = "read" \/ ~parseOk(files[cur], disk[cur])
     THEN /\ FileFailed
          /\ UNCHANGED << lines, ignoredTypes, searchResponseInnerTypes, plan, i,
                          annotationsApplied >>
     ELSE /\ lines' = disk[cur]
          /\ ignoredTypes' = {}
          /\ searchResponseInnerTypes' = {}
          /\ plan' = EmptyPlan
          /\ i' = 0
          /\ annotationsApplied' = 0
          /\ pc' = "ignore"
          /\ UNCHANGED << result, aborted >>
  /\ UNCHANGED << mode, files, disk, run, cur, runErr, exitCode, handled, prevDisk >>

FindIgnoredTypes ==
  /\ pc = "ignore"
  /\ ignoredTypes' = findIgnoredTypes(files[cur].decls, lines)
  /\ pc' = "inner"
  /\ UNCHANGED << mode, files, disk, run, cur, aborted, lines,
                  searchResponseInnerTypes, plan, i, annotationsApplied, result,
                  runErr, exitCode, handled, prevDisk >>

FindSearchResponseInnerTypes ==
  /\ pc = "inner"
  /\ searchResponseInnerTypes' =
       findSearchResponseInnerTypes(files[cur].decls, ignoredTypes)
  /\ i' = 1
  /\ pc' = (IF Len(files[cur].decls) = 0 THEN "apply" ELSE "annotate")
  /\ UNCHANGED << mode, files, disk, run, cur, aborted, lines, ignoredTypes, plan,
                  annotationsApplied, result, runErr, exitCode, handled, prevDisk >>

\* addAnnotations: the inspection reaches the next type declaration
AddAnnotations ==
  /\ pc = "annotate"
  /\ plan' = addAnnotationsVisit(files[cur].decls, files[cur].dir, ignoredTypes,
                                 searchResponseInnerTypes, plan, i)
  /\ i' = i + 1
  /\ pc' = (IF i = Len(files[cur].decls) THEN "apply" ELSE "annotate")
  /\ UNCHANGED << mode, files, disk, run, cur, aborted, lines, ignoredTypes,
                  searchResponseInnerTypes, annotationsApplied, result, runErr,
                  exitCode, handled, prevDisk >>

ApplyAnnotations ==
  /\ pc = "apply"
  /\ LET out == applyAnnotations(lines, plan.annotations, PrefixOf(files[cur]))
     IN  /\ lines' = out.lines
         /\ annotationsApplied' = out.annotationsApplied
         /\ result' = [result EXCEPT !.AnnotationsAdded = @ + out.added,
                                     !.AnnotationsReplaced = @ + out.replaced]
  /\ pc' = "write"
  /\ UNCHANGED << mode, files, disk, run, cur, aborted, ignoredTypes,
                  searchResponseInnerTypes, plan, i, runErr, exitCode, handled,
                  prevDisk >>

\* processFile: the file is written when a line changed; writeFile joins the lines
WriteFile ==
  /\ pc = "write"
  /\ IF annotationsApplied > 0 /\ files[cur].fault = "write"
     THEN FileFailed /\ UNCHANGED disk
     ELSE /\ disk' = (IF annotationsApplied > 0 THEN [disk EXCEPT ![cur] = lines]
                      ELSE disk)
          /\ pc' = "walk"
          /\ UNCHANGED << result, aborted >>
  /\ UNCHANGED << mode, files, run, cur, lines, ignoredTypes,
                  searchResponseInnerTypes, plan, i, annotationsApplied, runErr,
                  exitCode, handled, prevDisk >>

\* git status --porcelain: the working tree was clean before the first invocation
Committed == [n \in 1..Len(files) |-> files[n].text]

\* Run returns, and main exits
Finish ==
  /\ pc = "walk"
  /\ cur = Len(files)
  /\ runErr' = HasErrors(result)
  /\ exitCode' = (IF HasErrors(result) THEN 1
                  ELSE IF mode = "check" /\ disk # Committed THEN 2
                  ELSE 0)
  /\ pc' = "done"
  /\ UNCHANGED << mode, files, disk, run, cur, aborted, lines, ignoredTypes,
                  searchResponseInnerTypes, plan, i, annotationsApplied, result,
                  handled, prevDisk >>

\* the command is invoked again on the tree the last invocation left
Rerun ==
  /\ pc = "done"
  /\ run < MaxRuns
  /\ run' = run + 1
  /\ prevDisk' = disk
  /\ pc' = "main"
  /\ cur' = 0
  /\ aborted' = {}
  /\ lines' = <<>>
  /\ ignoredTypes' = {}
  /\ searchResponseInnerTypes' = {}
  /\ plan' = EmptyPlan
  /\ i' = 0
  /\ annotationsApplied' = 0
  /\ result' = EmptyResult
  /\ runErr' = FALSE
  /\ exitCode' = -1
  /\ handled' = {}
  /\ UNCHANGED << mode, files, disk >>

NextOnce ==
  \/ Main
  \/ Walk
  \/ ReadAndParse
  \/ FindIgnoredTypes
  \/ FindSearchResponseInnerTypes
  \/ AddAnnotations
  \/ ApplyAnnotations
  \/ WriteFile
  \/ Finish

Next == NextOnce \/ Rerun

Spec == Init /\ [][Next]_vars

SpecNaming == InitNaming /\ [][NextOnce]_vars

SpecRun == InitRun /\ [][NextOnce]_vars

\* ------------------------------------------------------------ claims: the file pipeline
\* the declarations of the file being processed, and its prefix
CurDecls == files[cur].decls
CurPrefix == PrefixOf(files[cur])
InPipeline == pc \in {"ignore", "inner", "annotate", "apply", "write"}

\* C1: a second invocation on the output of the first changes no line (no
\* annotation is added or replaced, applyAnnotations returns 0) and leaves the
\* file as the first invocation left it.
C1_SecondRunChangesNothing ==
  run >= 2 =>
    /\ result.AnnotationsAdded = 0
    /\ result.AnnotationsReplaced = 0
    /\ annotationsApplied = 0
    /\ disk = prevDisk

\* the closing-brace line ends with the comment // @swagger:ignore and holds no
\* directive
CarriesIgnoreComment(line) ==
  /\ Len(line) >= 1
  /\ line[Len(line)].k = "ign"
  /\ \A p \in 1..Len(line) : line[p].k # "name"

\* C2: an exported struct, of any number of field lines, whose closing-brace line
\* carries the comment // @swagger:ignore is in the ignore set once the ignore
\* pass has run, and none of its lines gets a directive added or replaced.
C2_MarkedStructIgnored ==
  (pc \in {"inner", "annotate", "apply", "write"}) =>
    \A k \in 1..Len(CurDecls) :
      LET d == CurDecls[k]
      IN  (IsExported(d.name) /\ d.shape = "struct"
             /\ CarriesIgnoreComment(disk[cur][d.end]))
          => /\ d.name \in ignoredTypes
             /\ \A l \in d.pos..d.end : lines[l] = disk[cur][l]

NameCount(line) == Cardinality({p \in 1..Len(line) : line[p].k = "name"})

\* the text of the line before its first directive comment
BeforeMarker(line) ==
  SubSeq(line, 1, (CHOOSE p \in 1..Len(line) :
                     line[p].k = "name" /\ \A q \in 1..(p - 1) : line[q].k # "name") - 1)

\* the line holds a directive, and none whose token begins with the expected one
HoldsStale(line, expected) ==
  /\ NameCount(line) >= 1
  /\ \A p \in 1..Len(line) : line[p].k = "name" => ~HasPrefix(line[p].tok, expected)

StaleLines ==
  {k \in DOMAIN plan.annotations :
     HoldsStale(lines[k + 1], CurPrefix \o plan.annotations[k])}

\* C5: the patcher turns every planned line that holds a stale directive, whatever
\* its indentation, into the text before the directive followed by one space and
\* the expected directive: the text before is kept, one directive remains, and the
\* replaced counter goes up by one per such line.
C5_StaleReplacedInPlace ==
  [][ pc = "apply" =>
        /\ \A k \in StaleLines :
             /\ lines'[k + 1] = BeforeMarker(lines[k + 1])
                                  \o <<WS, NameTok(CurPrefix \o plan.annotations[k])>>
             /\ NameCount(lines'[k + 1]) = 1
        /\ result'.AnnotationsReplaced
             = result.AnnotationsReplaced + Cardinality(StaleLines) ]_vars

\* C10: after the patcher, every planned line holds a directive whose token is
\* exactly the prefix followed by the planned name.
C10_PlannedLinesHoldExactDirective ==
  pc = "write" =>
    \A k \in DOMAIN plan.annotations :
      \E p \in 1..Len(lines[k + 1]) :
        /\ lines[k + 1][p].k = "name"
        /\ lines[k + 1][p].tok = CurPrefix \o plan.annotations[k]

\* ------------------------------------------------------------ claims: the naming pass
PlanReady == pc \in {"apply", "write"}

InfoOf(d) == extractTypeInfo(d)

\* the declaration is one the naming pass names
Named(d, ign) == IsExported(d.name) /\ d.name \notin ign /\ InfoOf(d).Name # <<>>

\* The names the naming pass computes for a file, each with the 0-based line it is
\* meant for and the declaration (by) whose visit computes it.
Candidates(decls, variant, ign, inner) ==
  LET namesOf(k) == generateAnnotationNameWithContext(InfoOf(decls[k]), variant, inner)
      named == {k \in 1..Len(decls) : Named(decls[k], ign)}
  IN  { [line |-> decls[k].end - 1, name |-> namesOf(k)[1], by |-> k] : k \in named }
      \cup
      { [line |-> decls[c[2]].end - 1, name |-> namesOf(c[1])[2], by |-> c[1]] :
          c \in { c \in named \X (1..Len(decls)) :
                    /\ namesOf(c[1])[2] # <<>>
                    /\ decls[c[2]].name = InfoOf(decls[c[1]]).InnerType
                    /\ decls[c[2]].name \notin ign } }

CurCandidates ==
  Candidates(CurDecls, files[cur].dir, ignoredTypes, searchResponseInnerTypes)

\* C3: no entry of the plan is ever written for a declaration whose name is in the
\* ignore set, neither as its own name nor as the item name of a wrapper that
\* refers to it; and the patcher leaves every line alone that the plan does not hold.
C3_IgnoredNeverPlanned ==
  InPipeline =>
    /\ \A w \in plan.writes : CurDecls[w.decl].name \notin ignoredTypes
    /\ pc = "write" =>
         \A l \in 1..Len(lines) :
           (l - 1) \notin DOMAIN plan.annotations => lines[l] = disk[cur][l]

\* an ignored declaration is the inner type of a wrapper that has been named
C3_Witness ==
  /\ PlanReady
  /\ \E k, j \in 1..Len(CurDecls) :
       /\ Named(CurDecls[k], ignoredTypes)
       /\ IsSearchResponseWrapper(InfoOf(CurDecls[k]))
       /\ InfoOf(CurDecls[k]).InnerType = CurDecls[j].name
       /\ CurDecls[j].name \in ignoredTypes
       /\ \E w \in plan.writes : w.decl = k

ItemSuffix(variant) == IF variant = "response" THEN <<"Item", "Res">> ELSE <<"Item", "Req">>

\* the names the plan is to hold for the wrapper W and for its item type T
WrapperName(W) == W.name \o <<"Res">>
ItemName(T) == StripSuffixes(T.name) \o ItemSuffix(files[cur].dir)

\* W is an exported, non-ignored wrapper over SearchResponse whose inner type is the
\* non-ignored plain struct T, the two end on different lines, and no other
\* declaration computes either of their names
IsPair(w, t) ==
  LET W == CurDecls[w]
      T == CurDecls[t]
      wres == WrapperName(W)
      titem == ItemName(T)
  IN  /\ w # t
      /\ Named(W, ignoredTypes)
      /\ IsSearchResponseWrapper(InfoOf(W))
      /\ InfoOf(W).InnerType = T.name
      /\ T.shape = "struct"
      /\ T.name \notin ignoredTypes
      /\ W.end # T.end
      /\ \A c \in CurCandidates : c.by \notin {w, t} => c.name \notin {wres, titem}

\* the two names differ, and no other declaration computes a name for the line W
\* ends on or for the line T ends on
LinesUncontested(w, t) ==
  /\ WrapperName(CurDecls[w]) # ItemName(CurDecls[t])
  /\ \A c \in CurCandidates :
       c.line \in {CurDecls[w].end - 1, CurDecls[t].end - 1} => c.by \in {w, t}

PairPlanned(w, t) ==
  LET a == plan.annotations
      lw == CurDecls[w].end - 1
      lt == CurDecls[t].end - 1
  IN  /\ lw \in DOMAIN a
      /\ a[lw] = WrapperName(CurDecls[w])
      /\ lt \in DOMAIN a
      /\ a[lt] = ItemName(CurDecls[t])

\* C4 as stated: for every such pair, in either declaration order, the plan maps
\* the end line of W to W+Res and the end line of T to strip(T)+ItemRes (response
\* files) or strip(T)+ItemReq (request files).
C4_PairPlanned_AsStated ==
  PlanReady => \A w, t \in 1..Len(CurDecls) : IsPair(w, t) => PairPlanned(w, t)

\* C4 as amended: the same, when moreover W+Res differs from the item name of T and
\* no other declaration computes a name for the line W ends on or the line T ends on.
C4_PairPlanned ==
  PlanReady =>
    \A w, t \in 1..Len(CurDecls) :
      (IsPair(w, t) /\ LinesUncontested(w, t)) => PairPlanned(w, t)

\* a request file in which the item type is declared before its wrapper
C4_Witness ==
  /\ PlanReady
  /\ files[cur].dir = "request"
  /\ \E w, t \in 1..Len(CurDecls) :
       t < w /\ IsPair(w, t) /\ LinesUncontested(w, t) /\ PairPlanned(w, t)

\* C9: no annotation name is on two lines of the plan, and a name written for one
\* line is never written for another.
C9_NamesOnOneLine ==
  InPipeline =>
    /\ \A l1, l2 \in DOMAIN plan.annotations :
         plan.annotations[l1] = plan.annotations[l2] => l1 = l2
    /\ \A w1, w2 \in plan.writes : w1.name = w2.name => w1.line = w2.line

\* ---- declaration order
Orders(n) == {p \in [1..n -> 1..n] : \A a, b \in 1..n : p[a] = p[b] => a = b}

\* the file with its declarations in the order p: position k holds declaration
\* p[k]; what is written on one line stays a property of the position
Reordered(file, p) ==
  SourceFile(file.dir, file.fault,
             [k \in 1..Len(file.items) |->
                [file.items[p[k]] EXCEPT !.join = file.items[k].join]])

NameGiven(annotations_, d) ==
  IF (d.end - 1) \in DOMAIN annotations_ THEN annotations_[d.end - 1] ELSE <<>>

PlanOfFile(file) == PlanOf(file.decls, file.text, file.dir).annotations

\* every declaration gets the same name in the order p as in the file's order
SameNames(file, p) ==
  LET other == Reordered(file, p)
  IN  \A k \in 1..Len(file.decls) :
        other.decls[k].name \notin ignoredTypes =>
          NameGiven(PlanOfFile(other), other.decls[k])
            = NameGiven(plan.annotations, file.decls[p[k]])

\* every declaration ends on a line of its own, no name is computed for two lines
\* and no two names for one line
NoConflict(file) ==
  LET ign == findIgnoredTypes(file.decls, file.text)
      cs == Candidates(file.decls, file.dir, ign,
                       findSearchResponseInnerTypes(file.decls, ign))
  IN  /\ \A a, b \in 1..Len(file.decls) : file.decls[a].end = file.decls[b].end => a = b
      /\ \A c1, c2 \in cs : (c1.name = c2.name) <=> (c1.line = c2.line)

DistinctNames(decls) ==
  \A a, b \in 1..Len(decls) : decls[a].name = decls[b].name => a = b

\* C8 as stated: whatever the order of the declarations (of different names) of a
\* file, the pipeline gives each declaration the same annotation name.
C8_OrderIrrelevant_AsStated ==
  (PlanReady /\ DistinctNames(CurDecls)) =>
    \A p \in Orders(Len(CurDecls)) : SameNames(files[cur], p)

\* C8 as amended: the same, for the orders in which, as in the file's own order,
\* every declaration ends on a line of its own, no name is computed for two lines
\* and no two names are computed for one line.
C8_OrderIrrelevant ==
  PlanReady =>
    \A p \in Orders(Len(CurDecls)) :
      (NoConflict(files[cur]) /\ NoConflict(Reordered(files[cur], p)))
        => SameNames(files[cur], p)

\* three named declarations without a conflict, the item type declared before its
\* wrapper and planned under its item name
C8_Witness ==
  /\ PlanReady
  /\ Len(CurDecls) = 3
  /\ NoConflict(files[cur])
  /\ \A k \in 1..3 : Named(CurDecls[k], ignoredTypes)
  /\ \E w, t \in 1..3 : t < w /\ IsPair(w, t) /\ PairPlanned(w, t)

\* ------------------------------------------------------------ claims: the run
\* C6: in check mode no source file on disk is modified.
C6_CheckModeWritesNothing ==
  mode = "check" => disk = Committed

\* the walk reaches the entry and hands it to processSourceFile
Reached(n) ==
  /\ files[n].fault \notin {"lstat", "nongo"}
  /\ \A m \in 1..(n - 1) : files[m].dir = files[n].dir => files[m].fault # "lstat"

PatchedText(file) == applyAnnotations(file.text, PlanOfFile(file), PrefixOf(file))

\* the file fails on read, on parse, or on the write its missing directive needs
Fails(n) ==
  \/ files[n].fault \in {"read", "parse"}
  \/ files[n].fault = "write" /\ PatchedText(files[n]).annotationsApplied > 0

ErrorsFor(n) ==
  Cardinality({e \in 1..Len(result.Errors) :
                 result.Errors[e] = [kind |-> "processing", path |-> n]})

\* C7: when Run has returned, every file the walk reached was processed, whatever
\* files failed before it: a failing file has exactly one error under its path
\* and is left as it was, every other file has none and holds its directives; and
\* Run returned an error exactly when an error was recorded.
C7_FailuresDoNotAbort ==
  pc = "done" =>
    /\ cur = Len(files)
    /\ \A n \in 1..Len(files) :
         Reached(n) =>
           /\ n \in handled
           /\ ErrorsFor(n) = (IF Fails(n) THEN 1 ELSE 0)
           /\ disk[n] = (IF Fails(n) THEN files[n].text
                         ELSE PatchedText(files[n]).lines)
    /\ result.FilesProcessed = Cardinality(handled)
    /\ runErr <=> Len(result.Errors) > 0

\* a file that fails is followed, in its directory, by one that gets its directive
C7_Witness ==
  /\ pc = "done"
  /\ \E m, n \in 1..Len(files) :
       /\ m < n
       /\ files[m].dir = files[n].dir
       /\ Reached(m) /\ Fails(m)
       /\ Reached(n) /\ ~Fails(n)
       /\ disk[n] # files[n].text
       /\ runErr

====
